---------------------------- MODULE Spec2Model ----------------------------
(***************************************************************************)
(* A model of the fleet client of src/fleet/fleet.go: endpoint resolution *)
(* (NewFleet), the lifecycle verbs (Submit, Start, Stop, Destroy) and the *)
(* status join (GetStatus), run against a fleet cluster that holds the    *)
(* Unit, UnitState and Machine collections.                                *)
(*                                                                         *)
(* Four specifications share the module.  SpecResolver exercises          *)
(* NewFleet and the dialling of the clients it returns; SpecLifecycle the *)
(* verbs interleaved with GetStatus calls; SpecStatus the join of         *)
(* GetStatus over clusters of every shape within the bounds; SpecRace one *)
(* GetStatus call on a cluster that changes between its fetches.          *)
(***************************************************************************)
EXTENDS Integers, Sequences, FiniteSets, TLC

VARIABLES
    httpClient,   \* the http.Client objects of the process: id -> its Transport field
    fleets,       \* the fleet values NewFleet has returned and callers still hold
    call,         \* the NewFleet call or client request that has just completed
    units,        \* cluster: the Unit collection, in list-units order
    unitStates,   \* cluster: the UnitState collection, in list-unit-states order
    machines,     \* cluster: the Machine collection, in list-machines order
    gs,           \* the frame of the GetStatus call in progress
    last,         \* the lifecycle call that has just returned
    prev,         \* the call before it, when that was a Start that succeeded
    destroyed     \* the names destroyed and not submitted since

vars == <<httpClient, fleets, call, units, unitStates, machines, gs, last, prev, destroyed>>
resolverVars == <<httpClient, fleets, call>>
clusterVars == <<units, unitStates, machines, gs, last, prev, destroyed>>

-----------------------------------------------------------------------------
(* Bounds of the model *)

\* how many fleet values callers hold at once
MaxFleets == 2

\* how many UnitState records the cluster lists
MaxUnitStates == 2

\* how many events change the cluster while one GetStatus call runs
MaxChanges == 2

-----------------------------------------------------------------------------
(* Errors.  An error value is a record; maskAny puts it in the envelope   *)
(* that keeps the cause.                                                    *)

NoErr == [kind |-> "nil", detail |-> <<>>, masked |-> FALSE]

\* fmt.Errorf of a message kind with its %q / %s arguments
Errorf(kind, args) == [kind |-> kind, detail |-> args, masked |-> FALSE]

\* maskAny(err): the uniform envelope, the underlying cause preserved
maskAny(err) == [err EXCEPT !.masked = TRUE]

\* the two messages NewFleet builds for a bad endpoint
IsConfigurationError(err) == err.kind \in {"unable to connect to host", "invalid scheme in fleet endpoint"}

-----------------------------------------------------------------------------
(* Endpoint resolution                                                      *)

Schemes == {"unix", "file", "http", "https", "tcp", ""}
Hosts == {"", "h1"}
Paths == {"/s1", "/s2"}
Endpoints == [Scheme : Schemes, Host : Hosts, Path : Paths]

\* http.DefaultClient, a client the caller made, and a Config without a client
DefaultClient == "http.DefaultClient"
OwnClient == "own client"
NilClient == "nil"
HTTPClients == {DefaultClient, OwnClient}

\* url.Parse("file:///var/run/fleet.sock") of DefaultConfig, with the model's path
DefaultEndpoint == [Scheme |-> "file", Host |-> "", Path |-> "/s1"]

\* DefaultConfig(): always the process-wide http.DefaultClient
DefaultConfig == [Client |-> DefaultClient, Endpoint |-> DefaultEndpoint]

\* the Config values a caller passes: DefaultConfig with the endpoint replaced
\* (as the command line does), or a Config built by hand with its own, or no,
\* http.Client
Configs ==
    {[DefaultConfig EXCEPT !.Endpoint = ep] : ep \in Endpoints}
        \cup [Client : {OwnClient, NilClient}, Endpoint : Endpoints]

\* Transport values: the zero value, http.DefaultTransport, and the
\* &http.Transport{Dial: ...} NewFleet builds around sockPath
NilTransport == [kind |-> "nil", sockPath |-> ""]
DefaultTransport == [kind |-> "http.DefaultTransport", sockPath |-> ""]
UnixTransport(sockPath) == [kind |-> "unix dial", sockPath |-> sockPath]

\* the Dial closure: net.Dial("unix", sockPath), its arguments s and t ignored.
\* An address is a tuple: <<path>> of a socket, <<host, port>> of a network peer.
MutDialFunc(sockPath, s, t) == <<s, t>>
DialFunc(sockPath, s, t) == <<"unix", <<sockPath>>>>

\* the connection a transport opens when the HTTP layer asks for (network, addr)
Dial(trans, network, addr) ==
    IF trans.kind = "unix dial" THEN DialFunc(trans.sockPath, network, addr)
    ELSE <<network, addr>>

NoFleet == [Config |-> [Client |-> NilClient, Endpoint |-> [Scheme |-> "", Host |-> "", Path |-> ""]],
            Client |-> [http |-> NilClient, base |-> <<"", "", "">>]]
NoDial == <<>>

\* client.NewHTTPClient(config.Client, config.Endpoint): the API client keeps the
\* *http.Client and the endpoint as its base
NewHTTPClient(c, ep) == [http |-> c, base |-> <<ep.Scheme, ep.Host, ep.Path>>]

\* the switch of NewFleet: the endpoint as rewritten, the transport chosen,
\* and the error of the rejected cases
MutResolveNoHostCheck(ep) ==
    CASE ep.Scheme \in {"unix", "file"} ->
           [err |-> NoErr,
            Endpoint |-> [Scheme |-> "http", Host |-> "domain-sock", Path |-> ""],
            trans |-> UnixTransport(ep.Path)]
      [] ep.Scheme \in {"http", "https"} ->
           [err |-> NoErr, Endpoint |-> ep, trans |-> DefaultTransport]
      [] OTHER ->
           [err |-> maskAny(Errorf("invalid scheme in fleet endpoint", <<ep.Scheme>>)),
            Endpoint |-> ep, trans |-> NilTransport]

MutResolveHttpAsSocket(ep) ==
    CASE ep.Scheme \in {"unix", "file"} /\ ep.Host # "" ->
           [err |-> maskAny(Errorf("unable to connect to host", <<ep.Host, ep.Scheme>>)),
            Endpoint |-> ep, trans |-> NilTransport]
      [] ep.Scheme \in {"unix", "file", "http", "https"} ->
           [err |-> NoErr,
            Endpoint |-> [Scheme |-> "http", Host |-> "domain-sock", Path |-> ""],
            trans |-> UnixTransport(ep.Path)]
      [] OTHER ->
           [err |-> maskAny(Errorf("invalid scheme in fleet endpoint", <<ep.Scheme>>)),
            Endpoint |-> ep, trans |-> NilTransport]

MutResolveDefaultHttp(ep) ==
    CASE ep.Scheme \in {"unix", "file"} /\ ep.Host # "" ->
           [err |-> maskAny(Errorf("unable to connect to host", <<ep.Host, ep.Scheme>>)),
            Endpoint |-> ep, trans |-> NilTransport]
      [] ep.Scheme \in {"unix", "file"} ->
           [err |-> NoErr,
            Endpoint |-> [Scheme |-> "http", Host |-> "domain-sock", Path |-> ""],
            trans |-> UnixTransport(ep.Path)]
      [] OTHER ->
           [err |-> NoErr, Endpoint |-> ep, trans |-> DefaultTransport]

Resolve(ep) ==
    CASE ep.Scheme \in {"unix", "file"} /\ ep.Host # "" ->
           [err |-> maskAny(Errorf("unable to connect to host", <<ep.Host, ep.Scheme>>)),
            Endpoint |-> ep, trans |-> NilTransport]
      [] ep.Scheme \in {"unix", "file"} ->
           [err |-> NoErr,
            Endpoint |-> [Scheme |-> "http", Host |-> "domain-sock", Path |-> ""],
            trans |-> UnixTransport(ep.Path)]
      [] ep.Scheme \in {"http", "https"} ->
           [err |-> NoErr, Endpoint |-> ep, trans |-> DefaultTransport]
      [] OTHER ->
           [err |-> maskAny(Errorf("invalid scheme in fleet endpoint", <<ep.Scheme>>)),
            Endpoint |-> ep, trans |-> NilTransport]

\* NewFleet(config).  The rejected endpoints return before the Config's client
\* is touched; config.Client.Transport = trans dereferences the client, so a
\* Config without one panics there; otherwise the shared http.Client object is
\* written and the fleet value is returned.
NewFleet(config) ==
    LET r == Resolve(config.Endpoint)
        f == [Config |-> [Client |-> config.Client, Endpoint |-> r.Endpoint],
              Client |-> NewHTTPClient(config.Client, r.Endpoint)]
    IN  IF r.err # NoErr
        THEN /\ call' = [op |-> "NewFleet", config |-> config, ret |-> NoFleet,
                         err |-> r.err, panic |-> FALSE, dial |-> NoDial]
             /\ UNCHANGED <<httpClient, fleets, clusterVars>>
        ELSE IF config.Client = NilClient
        THEN /\ call' = [op |-> "NewFleet", config |-> config, ret |-> NoFleet,
                         err |-> NoErr, panic |-> TRUE, dial |-> NoDial]
             /\ UNCHANGED <<httpClient, fleets, clusterVars>>
        ELSE /\ f \in fleets \/ Cardinality(fleets) < MaxFleets
             /\ httpClient' = [httpClient EXCEPT ![config.Client] = r.trans]
             /\ fleets' = fleets \cup {f}
             /\ call' = [op |-> "NewFleet", config |-> config, ret |-> f,
                         err |-> NoErr, panic |-> FALSE, dial |-> NoDial]
             /\ UNCHANGED clusterVars

\* the transport a fleet value's requests go through: f.Client holds the
\* *http.Client, whose Transport field is read at request time
TransportOf(f) == httpClient[f.Client.http]

\* the address the HTTP layer derives from the request URL (the base endpoint)
Port(scheme) == IF scheme = "https" THEN "443" ELSE "80"
RequestAddr(f) == <<f.Config.Endpoint.Host, Port(f.Config.Endpoint.Scheme)>>
Networks == {"tcp", "tcp4"}
DialAddrs == {<<"proxy", "3128">>}

\* One request of a fleet value (any of f.Client.CreateUnit, SetUnitTargetState,
\* DestroyUnit, Units, UnitStates, Machines): the HTTP layer asks the transport
\* for a connection to the request's address, or to whatever a proxy setting
\* or redirect makes it ask for.
Request(f, network, addr) ==
    /\ f \in fleets
    /\ call' = [op |-> "Request", fleet |-> f, trans |-> TransportOf(f),
                network |-> network, addr |-> addr,
                dial |-> Dial(TransportOf(f), network, addr)]
    /\ UNCHANGED <<httpClient, fleets, clusterVars>>

InitResolver ==
    /\ httpClient = [c \in HTTPClients |-> NilTransport]
    /\ fleets = {}
    /\ call = [op |-> "none"]

NextResolver ==
    \/ \E config \in Configs : NewFleet(config)
    \/ \E f \in fleets, network \in Networks :
         \E addr \in DialAddrs \cup {RequestAddr(f)} : Request(f, network, addr)

-----------------------------------------------------------------------------
(* The cluster behind the remote API, and the values GetStatus returns      *)

Names == {"a", "b"}
MachineIDs == {"m1", "m2"}
PublicIPs == {"10.0.0.1", "10.0.0.2", ""}
SystemdActiveStates == {"active", "failed"}

unitStateInactive == "inactive"
unitStateLoaded == "loaded"
unitStateLaunched == "launched"

\* unit-file texts: one the parser accepts, one it rejects
Contents == {"[Service]\nExecStart=/bin/true", "ExecStart"}

\* unit.NewUnitFile(content): the parsed file, or the parser's error
NewUnitFile(content) ==
    IF content = "[Service]\nExecStart=/bin/true"
    THEN [err |-> NoErr, file |-> <<[Section |-> "Service", Name |-> "ExecStart", Value |-> "/bin/true"]>>]
    ELSE [err |-> Errorf("unable to parse unit file", <<content>>), file |-> <<>>]

\* schema.MapUnitFileToSchemaUnitOptions(unitFile): one option record per option
MapUnitFileToSchemaUnitOptions(file) == file

\* net.ParseIP(s): the address as bytes, nil (no bytes) when s is no address
ParseIP(s) ==
    CASE s = "10.0.0.1" -> <<10, 0, 0, 1>>
      [] s = "10.0.0.2" -> <<10, 0, 0, 2>>
      [] OTHER -> <<>>

unitNotFoundError == Errorf("unit not found", <<>>)
ipNotFoundError == Errorf("ip not found", <<>>)
\* the error of a remote call that failed (transport, status code, decoding)
remoteError == Errorf("remote call failed", <<>>)

\* IsUnitNotFound(err): the cause under the envelope is unitNotFoundError
IsUnitNotFound(err) == [err EXCEPT !.masked = FALSE] = unitNotFoundError

\* UnitStatus{}
ZeroUnitStatus == [Current |-> "", Desired |-> "", Machine |-> <<>>]

IndexOfUnit(us, name) ==
    IF \E i \in 1..Len(us) : us[i].Name = name
    THEN CHOOSE i \in 1..Len(us) : us[i].Name = name /\ \A j \in 1..(i - 1) : us[j].Name # name
    ELSE 0

RemoveAt(s, i) == [j \in 1..(Len(s) - 1) |-> IF j < i THEN s[j] ELSE s[j + 1]]

-----------------------------------------------------------------------------
(* The remote API (f.Client), as the cluster answers it.  ok is whether the *)
(* round trip went through; a call that did not leaves the cluster as it is. *)

\* create-unit: a new record, or the desired-state of the record of that name
CreateUnit(us, unit, ok) ==
    LET i == IndexOfUnit(us, unit.Name)
    IN  IF ~ok THEN [err |-> remoteError, units |-> us]
        ELSE IF i = 0
        THEN [err |-> NoErr,
              units |-> Append(us, [Name |-> unit.Name, CurrentState |-> unitStateInactive,
                                    DesiredState |-> unit.DesiredState])]
        ELSE [err |-> NoErr, units |-> [us EXCEPT ![i].DesiredState = unit.DesiredState]]

\* set-unit-desired-state: fails for a unit the cluster does not have
SetUnitTargetState(us, name, target, ok) ==
    LET i == IndexOfUnit(us, name)
    IN  IF ~ok \/ i = 0 THEN [err |-> remoteError, units |-> us]
        ELSE [err |-> NoErr, units |-> [us EXCEPT ![i].DesiredState = target]]

\* delete-unit: removes the record; fails for a unit the cluster does not have
DestroyUnit(us, name, ok) ==
    LET i == IndexOfUnit(us, name)
    IN  IF ~ok \/ i = 0 THEN [err |-> remoteError, units |-> us]
        ELSE [err |-> NoErr, units |-> RemoveAt(us, i)]

\* list-units, list-unit-states, list-machines
Fetch(collection, ok) ==
    IF ok THEN [err |-> NoErr, items |-> collection]
    ELSE [err |-> remoteError, items |-> <<>>]

-----------------------------------------------------------------------------
(* The lifecycle verbs.  Each is one call that returns; last is the call,   *)
(* the requests it issued, each with the error the remote call answered,     *)
(* and the error it returned.                                                *)

NoPrev == [op |-> "other", name |-> ""]

Returned(op, name, content, reqs, err) ==
    /\ last' = [op |-> op, name |-> name, content |-> content, reqs |-> reqs, err |-> err]
    /\ prev' = IF last.op = "Start" /\ last.err = NoErr
               THEN [op |-> "Start", name |-> last.name]
               ELSE NoPrev

\* a write that changed the cluster while a GetStatus call is between its fetches
Disturbed(frame, submitted) ==
    IF frame.pc = "idle" THEN frame
    ELSE [frame EXCEPT !.afterDestroy = @ /\ frame.name # submitted]

MutSubmitDesiredState == unitStateLaunched
SubmitDesiredState == "loaded"

Submit(name, content, ok) ==
    LET unitFile == NewUnitFile(content)
        unit == [Name |-> name,
                 Options |-> MapUnitFileToSchemaUnitOptions(unitFile.file),
                 DesiredState |-> SubmitDesiredState]
        r == CreateUnit(units, unit, ok)
    IN  IF unitFile.err # NoErr
        THEN /\ Returned("Submit", name, content, <<>>, maskAny(unitFile.err))
             /\ UNCHANGED <<units, destroyed, gs, unitStates, machines, resolverVars>>
        ELSE /\ units' = r.units
             /\ destroyed' = destroyed \ {name}
             /\ gs' = Disturbed(gs, name)
             /\ Returned("Submit", name, content, <<[call |-> "CreateUnit", unit |-> unit, err |-> r.err]>>,
                         IF r.err # NoErr THEN maskAny(r.err) ELSE NoErr)
             /\ UNCHANGED <<unitStates, machines, resolverVars>>

\* a Start that issues its request a second time when the first one failed
MutStartRetries(name, ok) ==
    LET r == SetUnitTargetState(units, name, unitStateLaunched, ok)
        req == [call |-> "SetUnitTargetState", name |-> name,
                target |-> unitStateLaunched, err |-> r.err]
    IN  /\ units' = r.units
        /\ Returned("Start", name, "", IF r.err # NoErr THEN <<req, req>> ELSE <<req>>,
                    IF r.err # NoErr THEN maskAny(r.err) ELSE NoErr)
        /\ UNCHANGED <<destroyed, gs, unitStates, machines, resolverVars>>

Start(name, ok) ==
    LET r == SetUnitTargetState(units, name, unitStateLaunched, ok)
    IN  /\ units' = r.units
        /\ Returned("Start", name, "",
                    <<[call |-> "SetUnitTargetState", name |-> name,
                       target |-> unitStateLaunched, err |-> r.err]>>,
                    IF r.err # NoErr THEN maskAny(r.err) ELSE NoErr)
        /\ UNCHANGED <<destroyed, gs, unitStates, machines, resolverVars>>

MutStopTargetState == unitStateInactive
StopTargetState == unitStateLoaded

Stop(name, ok) ==
    LET r == SetUnitTargetState(units, name, StopTargetState, ok)
    IN  /\ units' = r.units
        /\ Returned("Stop", name, "",
                    <<[call |-> "SetUnitTargetState", name |-> name,
                       target |-> StopTargetState, err |-> r.err]>>,
                    IF r.err # NoErr THEN maskAny(r.err) ELSE NoErr)
        /\ UNCHANGED <<destroyed, gs, unitStates, machines, resolverVars>>

\* Destroy as the comment of the Fleet interface words it: a target-state write
MutDestroyRequest(us, name, ok) == SetUnitTargetState(us, name, unitStateInactive, ok)
DestroyRequest(us, name, ok) == DestroyUnit(us, name, ok)

Destroy(name, ok) ==
    LET r == DestroyRequest(units, name, ok)
    IN  /\ units' = r.units
        /\ destroyed' = IF r.err = NoErr THEN destroyed \cup {name} ELSE destroyed
        /\ Returned("Destroy", name, "",
                    <<[call |-> "DestroyUnit", name |-> name, err |-> r.err]>>,
                    IF r.err # NoErr THEN maskAny(r.err) ELSE NoErr)
        /\ UNCHANGED <<gs, unitStates, machines, resolverVars>>

-----------------------------------------------------------------------------
(* GetStatus.  The call is a frame that advances one remote fetch at a      *)
(* time; the cluster may be written between the fetches.  The frame holds   *)
(* the locals of the call, its requests (reqs), what each fetch of the      *)
(* Machine collection answered (seen), and the states the cluster's own     *)
(* events took the cluster through while the call ran (clusters).           *)

NoUnit == [Name |-> "", CurrentState |-> "", DesiredState |-> ""]

IdleFrame ==
    [pc |-> "idle", name |-> "", foundFleetUnit |-> NoUnit, foundFleetUnitStates |-> <<>>,
     ourUnitStatus |-> ZeroUnitStatus, ret |-> ZeroUnitStatus, err |-> NoErr,
     reqs |-> <<>>, afterDestroy |-> FALSE, seen |-> <<>>, clusters |-> <<>>]

GetStatusCall(name) ==
    /\ gs.pc = "idle"
    /\ gs' = [IdleFrame EXCEPT !.pc = "Units", !.name = name,
                               !.afterDestroy = (name \in destroyed)]
    /\ UNCHANGED <<units, unitStates, machines, last, prev, destroyed, resolverVars>>

\* return ret, err
Return(frame, ret, err) ==
    [frame EXCEPT !.pc = "done", !.ret = ret, !.err = err]

\* a GetStatus that takes a missing unit for a unit without fields
MutNotFoundReturn(frame) == Return(frame, ZeroUnitStatus, NoErr)
\* what GetStatus returns when no unit of the collection has the name
NotFoundReturn(frame) == Return(frame, ZeroUnitStatus, maskAny(unitNotFoundError))

\* f.Client.Units() and the scan for the first unit of that name
GetUnits(ok) ==
    /\ gs.pc = "Units"
    /\ LET r == Fetch(units, ok)
           i == IndexOfUnit(r.items, gs.name)
           frame == [gs EXCEPT !.reqs = Append(@, [call |-> "Units", ok |-> ok])]
       IN  gs' = IF r.err # NoErr THEN Return(frame, ZeroUnitStatus, maskAny(r.err))
                 ELSE IF i = 0 THEN NotFoundReturn(frame)
                 ELSE [frame EXCEPT !.pc = "UnitStates", !.foundFleetUnit = r.items[i]]
    /\ UNCHANGED <<units, unitStates, machines, last, prev, destroyed, resolverVars>>

\* the unit states of that name, in the order of the fetch
MutFilterUnitStates(fleetUnitStates, name) == fleetUnitStates
FilterUnitStates(fleetUnitStates, name) ==
    SelectSeq(fleetUnitStates, LAMBDA fus : fus.Name = name)

\* a GetUnitStates that takes a failed fetch for a unit without unit states
MutGetUnitStatesSwallows(ok) ==
    /\ gs.pc = "UnitStates"
    /\ LET r == Fetch(unitStates, ok)
           found == FilterUnitStates(r.items, gs.name)
           ourUnitStatus == [Current |-> gs.foundFleetUnit.CurrentState,
                             Desired |-> gs.foundFleetUnit.DesiredState,
                             Machine |-> <<>>]
           frame == [gs EXCEPT !.reqs = Append(@, [call |-> "UnitStates", ok |-> ok])]
       IN  gs' = IF found = <<>> THEN Return(frame, ourUnitStatus, NoErr)
                 ELSE [frame EXCEPT !.pc = "Machines", !.foundFleetUnitStates = found,
                                    !.ourUnitStatus = ourUnitStatus]
    /\ UNCHANGED <<units, unitStates, machines, last, prev, destroyed, resolverVars>>

\* f.Client.UnitStates(), the filter, and ourUnitStatus before the loop; a unit
\* without unit states returns at once
GetUnitStates(ok) ==
    /\ gs.pc = "UnitStates"
    /\ LET r == Fetch(unitStates, ok)
           found == FilterUnitStates(r.items, gs.name)
           ourUnitStatus == [Current |-> gs.foundFleetUnit.CurrentState,
                             Desired |-> gs.foundFleetUnit.DesiredState,
                             Machine |-> <<>>]
           frame == [gs EXCEPT !.reqs = Append(@, [call |-> "UnitStates", ok |-> ok])]
       IN  gs' = IF r.err # NoErr THEN Return(frame, ZeroUnitStatus, maskAny(r.err))
                 ELSE IF found = <<>> THEN Return(frame, ourUnitStatus, NoErr)
                 ELSE [frame EXCEPT !.pc = "Machines", !.foundFleetUnitStates = found,
                                    !.ourUnitStatus = ourUnitStatus]
    /\ UNCHANGED <<units, unitStates, machines, last, prev, destroyed, resolverVars>>

\* the scan of ipFromUnitState: the first machine with the unit state's machine ID
MutMachineIndex(machineStates, id) == IF machineStates = <<>> THEN 0 ELSE 1
MachineIndex(machineStates, id) ==
    IF \E i \in 1..Len(machineStates) : machineStates[i].ID = id
    THEN CHOOSE i \in 1..Len(machineStates) :
             /\ machineStates[i].ID = id
             /\ \A j \in 1..(i - 1) : machineStates[j].ID # id
    ELSE 0

\* an ipFromUnitState that returns the nil IP, and no error, for a missing machine
MutIpLookupNoError(unitState, r) ==
    LET i == MachineIndex(r.items, unitState.MachineID)
    IN  IF r.err # NoErr THEN [IP |-> <<>>, err |-> maskAny(r.err)]
        ELSE IF i # 0 THEN [IP |-> ParseIP(r.items[i].PublicIP), err |-> NoErr]
        ELSE [IP |-> <<>>, err |-> NoErr]
\* an ipFromUnitState that reports a missing machine as a missing unit
MutIpLookupUnitNotFound(unitState, r) ==
    LET i == MachineIndex(r.items, unitState.MachineID)
    IN  IF r.err # NoErr THEN [IP |-> <<>>, err |-> maskAny(r.err)]
        ELSE IF i # 0 THEN [IP |-> ParseIP(r.items[i].PublicIP), err |-> NoErr]
        ELSE [IP |-> <<>>, err |-> maskAny(unitNotFoundError)]
\* ipFromUnitState(unitState), given what f.Client.Machines() answered
ipFromUnitState(unitState, r) ==
    LET i == MachineIndex(r.items, unitState.MachineID)
    IN  IF r.err # NoErr THEN [IP |-> <<>>, err |-> maskAny(r.err)]
        ELSE IF i # 0 THEN [IP |-> ParseIP(r.items[i].PublicIP), err |-> NoErr]
        ELSE [IP |-> <<>>, err |-> maskAny(ipNotFoundError)]

\* a loop that fetches the Machine collection in its first turn and resolves
\* every unit state against that one answer
MutResolveMachineFetchesOnce(ok) ==
    /\ gs.pc = "Machines"
    /\ LET fetched == Fetch(machines, ok)
           r == [k \in 1..Len(gs.foundFleetUnitStates) |->
                   ipFromUnitState(gs.foundFleetUnitStates[k], fetched)]
           ourUnitStatus ==
               [gs.ourUnitStatus EXCEPT !.Machine =
                   [k \in 1..Len(r) |-> [ID |-> gs.foundFleetUnitStates[k].MachineID,
                                         IP |-> r[k].IP,
                                         SystemdActive |-> gs.foundFleetUnitStates[k].SystemdActiveState]]]
           frame == [gs EXCEPT !.reqs = Append(@, [call |-> "Machines", ok |-> ok]),
                               !.seen = Append(@, fetched.items)]
       IN  gs' = IF \E k \in 1..Len(r) : r[k].err # NoErr
                 THEN Return(frame, ZeroUnitStatus,
                             r[CHOOSE k \in 1..Len(r) :
                                   r[k].err # NoErr /\ \A j \in 1..(k - 1) : r[j].err = NoErr].err)
                 ELSE Return([frame EXCEPT !.ourUnitStatus = ourUnitStatus], ourUnitStatus, NoErr)
    /\ UNCHANGED <<units, unitStates, machines, last, prev, destroyed, resolverVars>>

\* one turn of the loop over foundFleetUnitStates, and the return after the last
ResolveMachine(ok) ==
    /\ gs.pc = "Machines"
    /\ LET ffus == gs.foundFleetUnitStates[Len(gs.ourUnitStatus.Machine) + 1]
           machineStates == Fetch(machines, ok)
           r == ipFromUnitState(ffus, machineStates)
           ourMachineStatus == [ID |-> ffus.MachineID, IP |-> r.IP,
                                SystemdActive |-> ffus.SystemdActiveState]
           ourUnitStatus == [gs.ourUnitStatus EXCEPT !.Machine = Append(@, ourMachineStatus)]
           frame == [gs EXCEPT !.reqs = Append(@, [call |-> "Machines", ok |-> ok]),
                               !.seen = Append(@, machineStates.items)]
       IN  gs' = IF r.err # NoErr THEN Return(frame, ZeroUnitStatus, maskAny(r.err))
                 ELSE IF Len(ourUnitStatus.Machine) = Len(gs.foundFleetUnitStates)
                 THEN Return([frame EXCEPT !.ourUnitStatus = ourUnitStatus], ourUnitStatus, NoErr)
                 ELSE [frame EXCEPT !.ourUnitStatus = ourUnitStatus]
    /\ UNCHANGED <<units, unitStates, machines, last, prev, destroyed, resolverVars>>

\* the caller has the result; the frame is gone
GetStatusDone ==
    /\ gs.pc = "done"
    /\ gs' = IdleFrame
    /\ UNCHANGED <<units, unitStates, machines, last, prev, destroyed, resolverVars>>

-----------------------------------------------------------------------------
(* What the cluster does by itself                                           *)

\* the cluster, as one value
Cluster(us, uss, ms) == [units |-> us, unitStates |-> uss, machines |-> ms]

\* the frame of a call that is between its fetches when an event takes the
\* cluster from before to after
Observed(frame, before, after) ==
    IF frame.pc \in {"idle", "done"} THEN frame
    ELSE [frame EXCEPT !.clusters = IF @ = <<>> THEN <<before, after>> ELSE Append(@, after)]

UnitStateRecords == [Name : Names, MachineID : MachineIDs, SystemdActiveState : SystemdActiveStates]

\* an agent reports a unit on its machine
Schedule(us) ==
    /\ Len(unitStates) < MaxUnitStates
    /\ unitStates' = Append(unitStates, us)
    /\ gs' = Observed(gs, Cluster(units, unitStates, machines), Cluster(units, unitStates', machines))
    /\ UNCHANGED <<units, machines, last, prev, destroyed, resolverVars>>

\* a report expires
Unschedule(i) ==
    /\ i \in 1..Len(unitStates)
    /\ unitStates' = RemoveAt(unitStates, i)
    /\ gs' = Observed(gs, Cluster(units, unitStates, machines), Cluster(units, unitStates', machines))
    /\ UNCHANGED <<units, machines, last, prev, destroyed, resolverVars>>

\* a machine joins the cluster
MachineJoin(id, ip) ==
    /\ \A i \in 1..Len(machines) : machines[i].ID # id
    /\ machines' = Append(machines, [ID |-> id, PublicIP |-> ip])
    /\ gs' = Observed(gs, Cluster(units, unitStates, machines), Cluster(units, unitStates, machines'))
    /\ UNCHANGED <<units, unitStates, last, prev, destroyed, resolverVars>>

\* a machine leaves the cluster
MachineLeave(i) ==
    /\ i \in 1..Len(machines)
    /\ machines' = RemoveAt(machines, i)
    /\ gs' = Observed(gs, Cluster(units, unitStates, machines), Cluster(units, unitStates, machines'))
    /\ UNCHANGED <<units, unitStates, last, prev, destroyed, resolverVars>>

-----------------------------------------------------------------------------
(* Specifications                                                            *)

NoCall == [op |-> "none", name |-> "", content |-> "", reqs |-> <<>>, err |-> NoErr]

InitClient ==
    /\ gs = IdleFrame
    /\ last = NoCall
    /\ prev = NoPrev
    /\ destroyed = {}

\* SpecResolver: NewFleet calls and requests of the clients; the cluster is not reached
InitR ==
    /\ InitResolver
    /\ InitClient
    /\ units = <<>>
    /\ unitStates = <<>>
    /\ machines = <<>>

SpecResolver == InitR /\ [][NextResolver]_vars

\* the Unit collections a lifecycle run starts from
LifecycleUnits ==
    {<<>>,
     <<[Name |-> "a", CurrentState |-> unitStateInactive, DesiredState |-> unitStateInactive]>>,
     <<[Name |-> "b", CurrentState |-> unitStateLaunched, DesiredState |-> unitStateLaunched],
       [Name |-> "a", CurrentState |-> unitStateLoaded, DesiredState |-> unitStateLoaded]>>}

\* SpecLifecycle: the verbs and GetStatus calls, interleaved, on a cluster whose
\* unit states and machines stay as they are
InitL ==
    /\ InitResolver
    /\ InitClient
    /\ units \in LifecycleUnits
    /\ unitStates = <<[Name |-> "a", MachineID |-> "m1", SystemdActiveState |-> "active"]>>
    /\ machines = <<[ID |-> "m1", PublicIP |-> "10.0.0.1"]>>

NextLifecycle ==
    \/ \E name \in Names, content \in Contents, ok \in BOOLEAN : Submit(name, content, ok)
    \/ \E name \in Names, ok \in BOOLEAN : Start(name, ok)
    \/ \E name \in Names, ok \in BOOLEAN : Stop(name, ok)
    \/ \E name \in Names, ok \in BOOLEAN : Destroy(name, ok)
    \/ \E name \in Names : GetStatusCall(name)
    \/ \E ok \in BOOLEAN : GetUnits(ok)
    \/ \E ok \in BOOLEAN : GetUnitStates(ok)
    \/ \E ok \in BOOLEAN : ResolveMachine(ok)
    \/ GetStatusDone

SpecLifecycle == InitL /\ [][NextLifecycle]_vars

\* the Unit collections a status run reads
StatusUnits ==
    {<<>>,
     <<[Name |-> "a", CurrentState |-> unitStateInactive, DesiredState |-> unitStateLoaded]>>,
     <<[Name |-> "b", CurrentState |-> unitStateLoaded, DesiredState |-> unitStateLoaded],
       [Name |-> "a", CurrentState |-> unitStateLoaded, DesiredState |-> unitStateLaunched]>>}

\* SpecStatus: GetStatus calls on a cluster that changes between the calls and
\* holds still during one
InitS ==
    /\ InitResolver
    /\ InitClient
    /\ units \in StatusUnits
    /\ unitStates = <<>>
    /\ machines = <<>>

\* no GetStatus call is between its fetches
Quiet == gs.pc = "idle"

NextStatus ==
    \/ \E name \in Names : GetStatusCall(name)
    \/ \E ok \in BOOLEAN : GetUnits(ok)
    \/ \E ok \in BOOLEAN : GetUnitStates(ok)
    \/ \E ok \in BOOLEAN : ResolveMachine(ok)
    \/ GetStatusDone
    \/ \E us \in UnitStateRecords : Quiet /\ Schedule(us)
    \/ \E i \in 1..Len(unitStates) : Quiet /\ Unschedule(i)
    \/ \E id \in MachineIDs, ip \in PublicIPs : Quiet /\ MachineJoin(id, ip)
    \/ \E i \in 1..Len(machines) : Quiet /\ MachineLeave(i)

SpecStatus == InitS /\ [][NextStatus]_vars

\* the UnitState collections a call under SpecRace starts on
RaceUnitStates ==
    {<<[Name |-> "a", MachineID |-> "m1", SystemdActiveState |-> "active"]>>,
     <<[Name |-> "a", MachineID |-> "m1", SystemdActiveState |-> "active"],
       [Name |-> "a", MachineID |-> "m2", SystemdActiveState |-> "failed"]>>}

\* the Machine collections a call under SpecRace starts on
RaceMachines ==
    {<<[ID |-> "m1", PublicIP |-> "10.0.0.1"]>>,
     <<[ID |-> "m1", PublicIP |-> "10.0.0.1"], [ID |-> "m2", PublicIP |-> "10.0.0.2"]>>}

\* SpecRace: one GetStatus call, on a cluster whose events go on between the
\* fetches of the call
InitRace ==
    /\ InitResolver
    /\ InitClient
    /\ units \in StatusUnits
    /\ unitStates \in RaceUnitStates
    /\ machines \in RaceMachines

\* a GetStatus call is between its fetches and the cluster may still change
Racing ==
    /\ gs.pc \in {"Units", "UnitStates", "Machines"}
    /\ Len(gs.clusters) <= MaxChanges

NextRace ==
    \/ \E name \in Names : GetStatusCall(name)
    \/ \E ok \in BOOLEAN : GetUnits(ok)
    \/ \E ok \in BOOLEAN : GetUnitStates(ok)
    \/ \E ok \in BOOLEAN : ResolveMachine(ok)
    \/ \E us \in UnitStateRecords : Racing /\ Schedule(us)
    \/ \E i \in 1..Len(unitStates) : Racing /\ Unschedule(i)
    \/ \E id \in MachineIDs, ip \in PublicIPs : Racing /\ MachineJoin(id, ip)
    \/ \E i \in 1..Len(machines) : Racing /\ MachineLeave(i)

SpecRace == InitRace /\ [][NextRace]_vars

-----------------------------------------------------------------------------
(* Endpoint resolution: claims C1 to C5, checked under SpecResolver          *)

SocketSchemes == {"unix", "file"}
HTTPSchemes == {"http", "https"}

\* every (network, address) the HTTP layer can hand to a dial function
AllDialAddrs == DialAddrs \cup {<<h, p>> : h \in Hosts \cup {"domain-sock"}, p \in {"80", "443"}}

\* C1: NewFleet on an endpoint of scheme unix or file that carries a host
\* returns the configuration error about the host and no client; the step
\* dials nothing, adds no fleet value and leaves every http.Client as it was.
C1_SocketSchemeWithHostRejected ==
    [][(/\ call'.op = "NewFleet"
        /\ call'.config.Endpoint.Scheme \in SocketSchemes
        /\ call'.config.Endpoint.Host # "")
       => (/\ IsConfigurationError(call'.err)
           /\ call'.err.detail = <<call'.config.Endpoint.Host, call'.config.Endpoint.Scheme>>
           /\ call'.ret = NoFleet
           /\ ~call'.panic
           /\ call'.dial = NoDial
           /\ fleets' = fleets
           /\ httpClient' = httpClient)]_vars

\* a unix endpoint with a host was refused while a client built earlier exists
C1_Witness ==
    /\ call.op = "NewFleet"
    /\ call.config.Endpoint = [Scheme |-> "unix", Host |-> "h1", Path |-> "/s1"]
    /\ call.err = maskAny(Errorf("unable to connect to host", <<"h1", "unix">>))
    /\ fleets # {}

\* C2: the transport NewFleet binds for an endpoint of scheme unix or file
\* without a host dials the endpoint's path as a unix-domain socket for every
\* network and address handed to it, and every request made through such a
\* transport opened exactly the connection <<"unix", path>>.
C2_SocketTransportDialsPath ==
    /\ (/\ call.op = "NewFleet"
        /\ call.config.Endpoint.Scheme \in SocketSchemes
        /\ call.config.Endpoint.Host = ""
        /\ call.config.Client # NilClient)
       => (/\ call.err = NoErr
           /\ call.ret \in fleets
           /\ \A network \in Networks, addr \in AllDialAddrs :
                Dial(httpClient[call.config.Client], network, addr)
                    = <<"unix", <<call.config.Endpoint.Path>>>>)
    /\ (call.op = "Request" /\ call.trans.kind = "unix dial")
       => call.dial = <<"unix", <<call.trans.sockPath>>>>

\* a request through the socket transport of /s2 asked for the proxy's address
C2_Witness ==
    /\ call.op = "Request"
    /\ call.trans = UnixTransport("/s2")
    /\ call.addr = <<"proxy", "3128">>
    /\ call.dial = <<"unix", <<"/s2">>>>

\* C3: NewFleet on an endpoint of scheme http or https, given a Config with an
\* HTTP client, returns a client whose endpoint has the scheme, host and path
\* it was given, and binds http.DefaultTransport, which dials what it is asked.
C3_HTTPEndpointUnchanged ==
    (/\ call.op = "NewFleet"
     /\ call.config.Endpoint.Scheme \in HTTPSchemes
     /\ call.config.Client # NilClient)
    => (/\ call.err = NoErr
        /\ call.ret \in fleets
        /\ call.ret.Config.Endpoint = call.config.Endpoint
        /\ call.ret.Client.base = <<call.config.Endpoint.Scheme, call.config.Endpoint.Host,
                                    call.config.Endpoint.Path>>
        /\ httpClient[call.config.Client] = DefaultTransport
        /\ \A network \in Networks, addr \in AllDialAddrs :
             Dial(httpClient[call.config.Client], network, addr) = <<network, addr>>)

\* an https endpoint was resolved
C3_Witness ==
    /\ call.op = "NewFleet"
    /\ call.config.Endpoint = [Scheme |-> "https", Host |-> "h1", Path |-> "/s2"]
    /\ call.ret \in fleets
    /\ call.ret.Config.Endpoint.Path = "/s2"

\* C4: NewFleet on an endpoint whose scheme is none of unix, file, http, https
\* returns the configuration error that carries the scheme, and no client.
C4_InvalidSchemeRejected ==
    (/\ call.op = "NewFleet"
     /\ call.config.Endpoint.Scheme \notin SocketSchemes \cup HTTPSchemes)
    => (/\ call.err = maskAny(Errorf("invalid scheme in fleet endpoint",
                                     <<call.config.Endpoint.Scheme>>))
        /\ IsConfigurationError(call.err)
        /\ call.ret = NoFleet
        /\ call.ret \notin fleets
        /\ ~call.panic)

\* the scheme tcp was refused
C4_Witness ==
    /\ call.op = "NewFleet"
    /\ call.config.Endpoint.Scheme = "tcp"
    /\ call.err.detail = <<"tcp">>
    /\ call.ret = NoFleet

\* C5: once NewFleet has returned a client, the transport its requests go
\* through never changes, whatever is called later.
C5_TransportNeverChanges ==
    [][\A f \in fleets : TransportOf(f)' = TransportOf(f)]_vars

-----------------------------------------------------------------------------
(* Lifecycle verbs: claims C6 to C8, checked under SpecLifecycle             *)

\* C6: a Submit whose content parses issues exactly one request, the
\* create-unit of a Unit of that name with desired-state loaded; when the call
\* succeeds the cluster has a unit of that name whose desired-state is loaded.
C6_SubmitCreatesLoaded ==
    (last.op = "Submit" /\ NewUnitFile(last.content).err = NoErr)
    => (/\ Len(last.reqs) = 1
        /\ last.reqs[1].call = "CreateUnit"
        /\ last.reqs[1].unit.Name = last.name
        /\ last.reqs[1].unit.DesiredState = "loaded"
        /\ last.err = NoErr =>
             \E i \in 1..Len(units) :
                units[i].Name = last.name /\ units[i].DesiredState = "loaded")

\* a Submit succeeded for a unit that is listed after another one
C6_Witness ==
    /\ last.op = "Submit"
    /\ last.err = NoErr
    /\ Len(units) = 2
    /\ units[2].Name = last.name
    /\ units[2].DesiredState = "loaded"

\* C7: when a Stop of a unit succeeds right after a Start of the same unit
\* succeeded, the unit exists and its desired-state is loaded.
C7_StartThenStopLeavesLoaded ==
    (/\ last.op = "Stop" /\ last.err = NoErr
     /\ prev.op = "Start" /\ prev.name = last.name)
    => /\ \E i \in 1..Len(units) : units[i].Name = last.name
       /\ \A i \in 1..Len(units) :
            units[i].Name = last.name => units[i].DesiredState = "loaded"

\* Start then Stop of unit a, both successful
C7_Witness ==
    /\ last.op = "Stop" /\ last.err = NoErr /\ last.name = "a"
    /\ prev = [op |-> "Start", name |-> "a"]
    /\ \E i \in 1..Len(units) : units[i].Name = "a" /\ units[i].DesiredState = "loaded"

\* C8 as stated: a GetStatus of a name called after a successful Destroy of
\* it, no Submit of the name since, fails with an error that tests as
\* UnitNotFound.
C8_DestroyedIsUnitNotFound ==
    (gs.pc = "done" /\ gs.afterDestroy) => IsUnitNotFound(gs.err)

\* C8 as amended: such a GetStatus returns the zero UnitStatus and an error
\* after its one fetch; the error tests as UnitNotFound when the fetch of the
\* Unit collection succeeded, and is the error of the fetch when it failed.
C8_DestroyedFailsGetStatus ==
    (gs.pc = "done" /\ gs.afterDestroy)
    => (/\ gs.ret = ZeroUnitStatus
        /\ gs.err # NoErr
        /\ Len(gs.reqs) = 1
        /\ gs.reqs[1].call = "Units"
        /\ gs.reqs[1].ok => IsUnitNotFound(gs.err)
        /\ ~gs.reqs[1].ok => (gs.err.kind = "remote call failed" /\ ~IsUnitNotFound(gs.err)))

\* a GetStatus after a Destroy found no unit while another unit is listed
C8_Witness ==
    /\ gs.pc = "done"
    /\ gs.afterDestroy
    /\ gs.name \in destroyed
    /\ IsUnitNotFound(gs.err)
    /\ units # <<>>

-----------------------------------------------------------------------------
(* GetStatus: claims C9 and C10, checked under SpecStatus                    *)

\* the positions of the UnitState collection that carry the name
Matching(name) == {i \in 1..Len(unitStates) : unitStates[i].Name = name}

\* C9: a GetStatus of a name the Unit collection has, all of whose fetches
\* succeeded, returns no error and an empty Machine sequence exactly when no
\* UnitState record carries the name.
C9_EmptyMachineIffNoUnitState ==
    (/\ gs.pc = "done"
     /\ \E i \in 1..Len(units) : units[i].Name = gs.name
     /\ \A k \in 1..Len(gs.reqs) : gs.reqs[k].ok)
    => ((gs.err = NoErr /\ gs.ret.Machine = <<>>) <=> Matching(gs.name) = {})

\* a GetStatus returned an empty Machine sequence while the other unit has unit states
C9_Witness ==
    /\ gs.pc = "done"
    /\ gs.err = NoErr
    /\ gs.ret.Machine = <<>>
    /\ gs.ret.Desired = unitStateLaunched
    /\ Len(unitStates) = 2
    /\ machines # <<>>

\* C10: a GetStatus that succeeds on a cluster that held still returns the
\* current-state and desired-state of the first unit of that name and one
\* Machine entry per UnitState record of that name, in the order of the
\* collection, each with the record's machine ID and systemd active state and
\* the parsed public IP of a machine of that ID.
C10_StatusIsTheJoin ==
    (gs.pc = "done" /\ gs.err = NoErr)
    => (/\ \E i \in 1..Len(units) :
             /\ units[i].Name = gs.name
             /\ \A j \in 1..(i - 1) : units[j].Name # gs.name
             /\ gs.ret.Current = units[i].CurrentState
             /\ gs.ret.Desired = units[i].DesiredState
        /\ Len(gs.ret.Machine) = Cardinality(Matching(gs.name))
        /\ \A k \in 1..Len(gs.ret.Machine) :
             \E i \in Matching(gs.name) :
                /\ Cardinality({j \in Matching(gs.name) : j < i}) = k - 1
                /\ gs.ret.Machine[k].ID = unitStates[i].MachineID
                /\ gs.ret.Machine[k].SystemdActive = unitStates[i].SystemdActiveState
                /\ \E m \in 1..Len(machines) :
                     /\ machines[m].ID = unitStates[i].MachineID
                     /\ gs.ret.Machine[k].IP = ParseIP(machines[m].PublicIP))

\* a unit reported on two machines, the second machine listed first
C10_Witness ==
    /\ gs.pc = "done"
    /\ gs.err = NoErr
    /\ Len(gs.ret.Machine) = 2
    /\ gs.ret.Machine[1].ID = "m2" /\ gs.ret.Machine[2].ID = "m1"
    /\ gs.ret.Machine[1].IP = <<10, 0, 0, 2>> /\ gs.ret.Machine[2].IP = <<10, 0, 0, 1>>
    /\ gs.ret.Machine[1].SystemdActive # gs.ret.Machine[2].SystemdActive
    /\ machines[1].ID = "m1"

-----------------------------------------------------------------------------
(* GetStatus errors: claims C11 to C13, checked under SpecStatus             *)

\* the matching positions whose machine ID no machine of the cluster has
Unresolvable(name) ==
    {i \in Matching(name) : \A m \in 1..Len(machines) : machines[m].ID # unitStates[i].MachineID}

HasUnit(name) == \E i \in 1..Len(units) : units[i].Name = name

AllFetchesOK == \A k \in 1..Len(gs.reqs) : gs.reqs[k].ok

\* C11 as stated: a GetStatus of a name one of whose UnitState records
\* references a machine ID that no machine has returns the zero UnitStatus and
\* the IP-not-found error.
C11_MissingMachineIsIPNotFound ==
    (gs.pc = "done" /\ Unresolvable(gs.name) # {})
    => (gs.ret = ZeroUnitStatus /\ gs.err = maskAny(ipNotFoundError))

\* C11 as amended: such a GetStatus returns the zero UnitStatus and an error,
\* whatever it resolved before; the error is the IP-not-found error when the
\* Unit collection has the name and every fetch of the call succeeded, the
\* unit-not-found error when the collection has no unit of the name, and the
\* error of the fetch when a fetch failed.
C11_MissingMachineFailsGetStatus ==
    (gs.pc = "done" /\ Unresolvable(gs.name) # {})
    => (/\ gs.ret = ZeroUnitStatus
        /\ gs.err # NoErr
        /\ (HasUnit(gs.name) /\ AllFetchesOK) => gs.err = maskAny(ipNotFoundError)
        /\ (~HasUnit(gs.name) /\ AllFetchesOK) => IsUnitNotFound(gs.err)
        /\ ~AllFetchesOK => gs.err = maskAny(remoteError))

\* the first record of the name was resolved, the second one was not
C11_Witness ==
    /\ gs.pc = "done"
    /\ gs.err = maskAny(ipNotFoundError)
    /\ gs.ret = ZeroUnitStatus
    /\ Len(gs.ourUnitStatus.Machine) = 1
    /\ Len(gs.foundFleetUnitStates) = 2
    /\ Cardinality(Unresolvable(gs.name)) = 1

\* C12: a GetStatus whose fetch of the Unit collection succeeded and found no
\* unit of the name returns the zero UnitStatus and an error that tests as
\* UnitNotFound after that one fetch, whatever the UnitState and Machine
\* collections hold.
C12_NoUnitIsUnitNotFound ==
    (gs.pc = "done" /\ gs.reqs[1].ok /\ ~HasUnit(gs.name))
    => (/\ IsUnitNotFound(gs.err)
        /\ gs.ret = ZeroUnitStatus
        /\ Len(gs.reqs) = 1)

\* no unit of the name, and a UnitState record of the name on a machine the cluster has
C12_Witness ==
    /\ gs.pc = "done"
    /\ IsUnitNotFound(gs.err)
    /\ units # <<>>
    /\ Matching(gs.name) # {}
    /\ Unresolvable(gs.name) = {}

\* C13: the error of a GetStatus tests as UnitNotFound exactly when the fetch
\* of the Unit collection succeeded and found no unit of the name; the error
\* of a failed fetch and the error of a machine that is not found do not.
C13_UnitNotFoundOnlyForMissingUnit ==
    (gs.pc = "done" /\ gs.err # NoErr)
    => (/\ IsUnitNotFound(gs.err) <=> (gs.reqs[1].ok /\ ~HasUnit(gs.name))
        /\ ~AllFetchesOK => (gs.err = maskAny(remoteError) /\ ~IsUnitNotFound(gs.err))
        /\ (AllFetchesOK /\ HasUnit(gs.name))
             => (gs.err = maskAny(ipNotFoundError) /\ ~IsUnitNotFound(gs.err)))

\* the second fetch of the Machine collection failed
C13_Witness ==
    /\ gs.pc = "done"
    /\ Len(gs.reqs) = 4
    /\ ~gs.reqs[4].ok
    /\ gs.err # NoErr
    /\ ~IsUnitNotFound(gs.err)

-----------------------------------------------------------------------------
(* Lifecycle verbs: claims C14, C15 and C19, checked under SpecLifecycle     *)

\* a step in which a Destroy returned without error
DestroySucceeds == last' # last /\ last'.op = "Destroy" /\ last'.err = NoErr

VerbRequest ==
    [Submit |-> "CreateUnit", Start |-> "SetUnitTargetState",
     Stop |-> "SetUnitTargetState", Destroy |-> "DestroyUnit"]

\* C15: a call of Submit, Start, Stop or Destroy issues no request when it is
\* a Submit whose content does not parse and exactly one request, the one of
\* its verb, otherwise; a request that failed is not issued again; and the
\* call returns an error exactly when the content did not parse or the request
\* failed, the error being that error in the envelope.
C15_OneRequestPerVerb ==
    (last.op \in DOMAIN VerbRequest)
    => LET parse == IF last.op = "Submit" THEN NewUnitFile(last.content).err ELSE NoErr
       IN  /\ Len(last.reqs) = (IF parse # NoErr THEN 0 ELSE 1)
           /\ \A k \in 1..Len(last.reqs) : last.reqs[k].call = VerbRequest[last.op]
           /\ last.err # NoErr <=> (parse # NoErr \/ \E k \in 1..Len(last.reqs) : last.reqs[k].err # NoErr)
           /\ parse # NoErr => last.err = maskAny(parse)
           /\ (parse = NoErr /\ last.reqs[1].err # NoErr) => last.err = maskAny(last.reqs[1].err)

\* a Start of a unit the cluster has failed on its one request
C15_Witness ==
    /\ last.op = "Start"
    /\ last.err = maskAny(remoteError)
    /\ Len(last.reqs) = 1
    /\ last.reqs[1].err = remoteError
    /\ \E i \in 1..Len(units) : units[i].Name = last.name

-----------------------------------------------------------------------------
(* GetStatus fetches: claims C16 and C20, checked under SpecStatus           *)

\* the fetch GetStatus issues in each place of its request sequence
FetchAt(k) == IF k = 1 THEN "Units" ELSE IF k = 2 THEN "UnitStates" ELSE "Machines"

\* C16: the fetches of a GetStatus call are the Unit collection, then the
\* UnitState collection, then the Machine collection as often as the call
\* needs it; a fetch that fails is the last fetch of the call, which has then
\* returned the zero UnitStatus and the error of that fetch.
C16_FetchOrderAndAbort ==
    /\ \A k \in 1..Len(gs.reqs) : gs.reqs[k].call = FetchAt(k)
    /\ \A k \in 1..Len(gs.reqs) :
         ~gs.reqs[k].ok => (/\ k = Len(gs.reqs)
                            /\ gs.pc = "done"
                            /\ gs.ret = ZeroUnitStatus
                            /\ gs.err = maskAny(remoteError))
    /\ gs.pc = "UnitStates" => Len(gs.reqs) = 1
    /\ gs.pc = "Machines" => Len(gs.reqs) >= 2

\* the fetch of the UnitState collection failed for a unit the cluster has and
\* that has unit states on machines of the cluster
C16_Witness ==
    /\ gs.pc = "done"
    /\ Len(gs.reqs) = 2
    /\ gs.reqs[1].ok /\ ~gs.reqs[2].ok
    /\ gs.ret = ZeroUnitStatus
    /\ gs.err = maskAny(remoteError)
    /\ Matching(gs.name) # {}
    /\ Unresolvable(gs.name) = {}

\* the fetches of the Machine collection the call has issued
MachineFetches == Cardinality({k \in 1..Len(gs.reqs) : gs.reqs[k].call = "Machines"})

\* the call has the UnitState records of its name and is in, or past, the loop
ReachedJoin == gs.pc \in {"Machines", "done"} /\ Len(gs.reqs) >= 2 /\ gs.reqs[2].ok

\* the matching records up to the first one whose machine the cluster lacks
UpToFirstUnresolvable(name) ==
    {i \in Matching(name) : \A j \in Unresolvable(name) : i <= j}

\* C20, the count: a call that reached the join has fetched the Machine
\* collection once per record it has processed, the records resolved so far
\* and the one it failed on; a call that succeeded has fetched it once per
\* UnitState record of the name, not at all when there is none; a call that
\* found a machine missing has fetched it once per record up to the first
\* such record and not for the records after it.
C20_OneMachineFetchPerRecord ==
    ReachedJoin
    => (/\ MachineFetches = Len(gs.ourUnitStatus.Machine)
                             + (IF gs.pc = "done" /\ gs.err # NoErr THEN 1 ELSE 0)
        /\ MachineFetches <= Len(gs.foundFleetUnitStates)
        /\ (gs.pc = "done" /\ gs.err = NoErr)
             => (/\ MachineFetches = Cardinality(Matching(gs.name))
                 /\ MachineFetches = Len(gs.ret.Machine))
        /\ (gs.pc = "done" /\ gs.err = maskAny(ipNotFoundError))
             => MachineFetches = Cardinality(UpToFirstUnresolvable(gs.name)))

\* C20, the writes: a step of a GetStatus call leaves the Unit, UnitState and
\* Machine collections as they are, and every request of the call is a fetch.
C20_GetStatusWritesNothing ==
    [][gs' # gs
       => (/\ units' = units /\ unitStates' = unitStates /\ machines' = machines
           /\ \A k \in 1..Len(gs'.reqs) : gs'.reqs[k].call \in {"Units", "UnitStates", "Machines"})]_vars

\* C20: in a GetStatus call that reaches the join the number of fetches of the
\* Machine collection is the number of matching UnitState records processed,
\* and GetStatus writes nothing to the cluster.
C20_MachineFetchesAndNoWrite ==
    []C20_OneMachineFetchPerRecord /\ C20_GetStatusWritesNothing

\* a call stopped at the first of two records, whose machine is missing
C20_Witness ==
    /\ gs.pc = "done"
    /\ gs.err = maskAny(ipNotFoundError)
    /\ MachineFetches = 1
    /\ Cardinality(Matching(gs.name)) = 2
    /\ Cardinality(Unresolvable(gs.name)) = 1

-----------------------------------------------------------------------------
(* GetStatus and a changing cluster: claims C17 and C18, checked under       *)
(* SpecRace                                                                  *)

\* the records of a Machine collection that have the ID
MachinesOfID(machineStates, id) == SelectSeq(machineStates, LAMBDA ms : ms.ID = id)

\* the join of a unit and its unit states against one Machine collection
JoinOnce(unit, found, machineStates) ==
    IF \E k \in 1..Len(found) : MachinesOfID(machineStates, found[k].MachineID) = <<>>
    THEN [ret |-> ZeroUnitStatus, err |-> maskAny(ipNotFoundError)]
    ELSE [ret |-> [Current |-> unit.CurrentState,
                   Desired |-> unit.DesiredState,
                   Machine |-> [k \in 1..Len(found) |->
                       [ID |-> found[k].MachineID,
                        IP |-> ParseIP(MachinesOfID(machineStates, found[k].MachineID)[1].PublicIP),
                        SystemdActive |-> found[k].SystemdActiveState]]],
          err |-> NoErr]

\* what the call of the frame returns when it fetches the Machine collection
\* once, before its first loop turn, and resolves every unit state against
\* that answer
GetStatusOnce(frame) ==
    IF Len(frame.reqs) < 3 THEN [ret |-> frame.ret, err |-> frame.err]
    ELSE IF ~frame.reqs[3].ok THEN [ret |-> ZeroUnitStatus, err |-> maskAny(remoteError)]
    ELSE JoinOnce(frame.foundFleetUnit, frame.foundFleetUnitStates, frame.seen[1])

\* what a GetStatus of the name returns when it reads the whole of one cluster
\* state and every fetch succeeds
AtomicGetStatus(c, name) ==
    IF \A i \in 1..Len(c.units) : c.units[i].Name # name
    THEN [ret |-> ZeroUnitStatus, err |-> maskAny(unitNotFoundError)]
    ELSE JoinOnce(SelectSeq(c.units, LAMBDA u : u.Name = name)[1],
                  SelectSeq(c.unitStates, LAMBDA fus : fus.Name = name),
                  c.machines)

\* what the call returned
Result == [ret |-> gs.ret, err |-> gs.err]

ClustersOfCall ==
    IF gs.clusters = <<>> THEN {Cluster(units, unitStates, machines)}
    ELSE {gs.clusters[k] : k \in 1..Len(gs.clusters)}

\* the call returned what no atomic GetStatus returns on a state of the call
NoSnapshot ==
    /\ gs.pc = "done"
    /\ AllFetchesOK
    /\ \A c \in ClustersOfCall : Result # AtomicGetStatus(c, gs.name)

\* C18: a GetStatus whose fetches all succeeded returns what an atomic
\* GetStatus returns on the cluster when the cluster held still during the
\* call; only a call with cluster changes between its fetches returns a
\* result that no atomic GetStatus returns on any state the cluster was in
\* during the call, and such a call exists (the witness).
C18_NoSnapshotOnlyWhenClusterChanged ==
    /\ NoSnapshot => Len(gs.clusters) >= 2
    /\ (gs.pc = "done" /\ AllFetchesOK /\ gs.clusters = <<>>)
         => Result = AtomicGetStatus(Cluster(units, unitStates, machines), gs.name)

\* a call returned a UnitStatus with two machines while no state of the
\* cluster during the call had both machines
C18_Witness ==
    /\ NoSnapshot
    /\ gs.err = NoErr
    /\ Len(gs.ret.Machine) = 2
    /\ \A c \in ClustersOfCall : Len(c.machines) < 2

-----------------------------------------------------------------------------
(* The desired-states the verbs write: claim C19, checked under              *)
(* SpecLifecycle                                                             *)

\* every unit of the collection has the desired-state loaded or launched
NoneInactive(us) ==
    \A i \in 1..Len(us) : us[i].DesiredState \in {unitStateLoaded, unitStateLaunched}

\* no request of the last verb carries the desired-state inactive
WritesNoInactive ==
    \A k \in 1..Len(last.reqs) :
        /\ last.reqs[k].call = "CreateUnit" => last.reqs[k].unit.DesiredState # unitStateInactive
        /\ last.reqs[k].call = "SetUnitTargetState" => last.reqs[k].target # unitStateInactive
        /\ last.op = "Destroy" => last.reqs[k].call = "DestroyUnit"

\* a step from a cluster without a unit of desired-state inactive leads to one
StaysNoneInactive == [][NoneInactive(units) => NoneInactive(units')]_vars

=============================================================================
